---- MODULE Spec2Model ----
(***************************************************************************)
(* Model of the query engine of xelis_common (api/query.rs) and of the     *)
(* TransactionType serializer (transaction/mod.rs).                        *)
(*                                                                         *)
(* Unsigned integers are little-endian sequences of bytes, so that the     *)
(* real widths (u8 .. u128, usize = 64 bits) are kept: an `as` cast to a   *)
(* narrower type keeps the low bytes, a cast to a wider type appends zero  *)
(* bytes.  Strings are sequences of one-character strings.                 *)
(***************************************************************************)
EXTENDS Integers, Sequences, FiniteSets, TLC

VARIABLES
    pc,        \* where the request, the call or the serialization stands
    wire,      \* the request as received, before decoding
    query,     \* the decoded predicate, None before decoding
    element,   \* the document of the last verify_element call
    scalar,    \* the scalar of the last verify call on a scalar
    mode,      \* the entry point called last
    result,    \* what the last call returned
    tx,        \* the TransactionType being serialized
    writer,    \* the bytes written to the Writer
    reported   \* what size() returned

vars == <<pc, wire, query, element, scalar, mode, result, tx, writer, reported>>

(***************************************************************************)
(* Bounds of the model                                                     *)
(***************************************************************************)
\* largest byte value used to build numeric inputs
MaxDigit == 2
\* longest string drawn as an input or operand
MaxStrLen == 2
\* deepest nesting of a request tree that a client builds
MaxDepth == 2
\* longest operand list of an "and" / "or" that a client builds
MaxChildren == 2
\* most transfers in a serialized transaction
MaxTransfers == 3
\* longest extra_data of a transfer
MaxExtraLen == 2

(***************************************************************************)
(* Fixed-width unsigned integers                                           *)
(***************************************************************************)
\* bytes of a usize on the 64-bit targets the node is built for
UsizeBytes == 8

NumericKinds == {"U8", "U16", "U32", "U64", "U128"}

\* bytes of u8, u16, u32, u64, u128
WidthBytes(kind) ==
    CASE kind = "U8" -> 1
      [] kind = "U16" -> 2
      [] kind = "U32" -> 4
      [] kind = "U64" -> 8
      [] kind = "U128" -> 16

\* `x as uN`: truncation to the low n bytes, or zero extension
CastTo(bytes, n) == [i \in 1..n |-> IF i <= Len(bytes) THEN bytes[i] ELSE 0]

\* a > b for two integers of the same width
Gt(a, b) ==
    \E i \in 1..Len(a) :
        /\ a[i] > b[i]
        /\ \A j \in (i+1)..Len(a) : a[j] = b[j]

Ge(a, b) == a = b \/ Gt(a, b)
Lt(a, b) == Gt(b, a)
Le(a, b) == a = b \/ Gt(b, a)

\* the integer lo + hi * 256^(pos-1) in n bytes
Num(n, lo, pos, hi) ==
    [i \in 1..n |-> IF i = pos THEN hi ELSE IF i = 1 THEN lo ELSE 0]

\* a small integer in n bytes
Small(n, k) == Num(n, k, 1, k)

IsZero(bytes) == \A i \in 1..Len(bytes) : bytes[i] = 0

(***************************************************************************)
(* Canonical strings                                                       *)
(***************************************************************************)
DigitChar == <<"0", "1", "2", "3", "4", "5", "6", "7", "8", "9">>

\* remainder modulo 10 of the integer made of bytes i .. Len(bytes)
RECURSIVE Rem10(_, _)
Rem10(bytes, i) ==
    IF i > Len(bytes) THEN 0
    ELSE (Rem10(bytes, i + 1) * 256 + bytes[i]) % 10

\* the integer divided by 10, in the same width
Div10(bytes) ==
    [i \in 1..Len(bytes) |-> (Rem10(bytes, i + 1) * 256 + bytes[i]) \div 10]

RECURSIVE Digits(_)
Digits(bytes) ==
    IF IsZero(bytes) THEN <<>>
    ELSE Digits(Div10(bytes)) \o <<DigitChar[Rem10(bytes, 1) + 1]>>

\* decimal rendering of an unsigned integer
ToDecimal(bytes) == IF IsZero(bytes) THEN <<"0">> ELSE Digits(bytes)

\* str::starts_with
starts_with(s, p) == Len(p) <= Len(s) /\ SubSeq(s, 1, Len(p)) = p

\* str::ends_with (what a suffix test would compute)
ends_with(s, p) == Len(p) <= Len(s) /\ SubSeq(s, Len(s) - Len(p) + 1, Len(s)) = p

\* str::contains
contains(s, p) ==
    \E i \in 0..(Len(s) - Len(p)) : SubSeq(s, i + 1, i + Len(p)) = p

\* Regex::is_match for a pattern made of literal characters: found anywhere
is_match(pattern, s) == contains(s, pattern)

(***************************************************************************)
(* Document model: DataValue, DataElement, DataType                        *)
(***************************************************************************)
U8(bytes) == [kind |-> "U8", num |-> bytes]
U16(bytes) == [kind |-> "U16", num |-> bytes]
U32(bytes) == [kind |-> "U32", num |-> bytes]
U64(bytes) == [kind |-> "U64", num |-> bytes]
U128(bytes) == [kind |-> "U128", num |-> bytes]
String(s) == [kind |-> "String", str |-> s]
Bool(b) == [kind |-> "Bool", bool |-> b]

Unsigned(kind, bytes) == [kind |-> kind, num |-> bytes]

\* DataValue::kind
value_kind(v) == v.kind

\* Display for DataValue
to_string(v) ==
    CASE v.kind = "String" -> v.str
      [] v.kind = "Bool" ->
            IF v.bool THEN <<"t", "r", "u", "e">> ELSE <<"f", "a", "l", "s", "e">>
      [] OTHER -> ToDecimal(v.num)

\* DataElement::Value(Option<DataValue>)
DataElement_Value(opt) == [shape |-> "Value", opt |-> opt]
None == <<>>
Some(x) == <<x>>
\* DataElement::Array(Vec<DataElement>)
Array(items) == [shape |-> "Array", items |-> items]
\* DataElement::Fields(HashMap<DataValue, DataElement>)
Fields(map) == [shape |-> "Fields", fields |-> map]

\* DataElement::kind
element_kind(e) ==
    CASE e.shape = "Array" -> "Array"
      [] e.shape = "Fields" -> "Fields"
      [] e.shape = "Value" ->
            IF e.opt = None THEN "Undefined" ELSE value_kind(e.opt[1])

(***************************************************************************)
(* QueryNumber                                                             *)
(***************************************************************************)
Above(t) == [op |-> "Above", threshold |-> t]
AboveOrEqual(t) == [op |-> "AboveOrEqual", threshold |-> t]
Below(t) == [op |-> "Below", threshold |-> t]
BelowOrEqual(t) == [op |-> "BelowOrEqual", threshold |-> t]

QueryNumber_verify(q, v) ==
    IF v.kind \notin NumericKinds THEN FALSE
    ELSE LET value == CastTo(q.threshold, WidthBytes(v.kind))
         IN CASE q.op = "Above" -> Gt(v.num, value)
              [] q.op = "AboveOrEqual" -> Ge(v.num, value)
              [] q.op = "Below" -> Lt(v.num, value)
              [] q.op = "BelowOrEqual" -> Le(v.num, value)

(***************************************************************************)
(* QueryValue                                                              *)
(***************************************************************************)
Equal(v) == [variant |-> "Equal", operand |-> v]
StartsWith(v) == [variant |-> "StartsWith", operand |-> v]
EndsWith(v) == [variant |-> "EndsWith", operand |-> v]
ContainsValue(v) == [variant |-> "ContainsValue", operand |-> v]
Pattern(p) == [variant |-> "Pattern", pattern |-> p]
NumberOp(q) == [variant |-> "NumberOp", number |-> q]

\* ends-with computed as a suffix test
QueryValue_verify_suffix(q, v) ==
    CASE q.variant = "Equal" -> v = q.operand
      [] q.variant = "StartsWith" -> starts_with(to_string(v), to_string(q.operand))
      [] q.variant = "EndsWith" -> ends_with(to_string(v), to_string(q.operand))
      [] q.variant = "ContainsValue" -> contains(to_string(v), to_string(q.operand))
      [] q.variant = "Pattern" -> is_match(q.pattern, to_string(v))
      [] q.variant = "NumberOp" -> QueryNumber_verify(q.number, v)

QueryValue_verify(q, v) ==
    CASE q.variant = "Equal" -> v = q.operand
      [] q.variant = "StartsWith" -> starts_with(to_string(v), to_string(q.operand))
      [] q.variant = "EndsWith" -> starts_with(to_string(v), to_string(q.operand))
      [] q.variant = "ContainsValue" -> contains(to_string(v), to_string(q.operand))
      [] q.variant = "Pattern" -> is_match(q.pattern, to_string(v))
      [] q.variant = "NumberOp" -> QueryNumber_verify(q.number, v)

(***************************************************************************)
(* Query and QueryElement                                                  *)
(***************************************************************************)
Not(op) == [tag |-> "Not", op |-> op]
And(operations) == [tag |-> "And", operations |-> operations]
Or(operations) == [tag |-> "Or", operations |-> operations]
Type(expected) == [tag |-> "Type", expected |-> expected]
Element(q) == [tag |-> "Element", element_query |-> q]
Query_Value(q) == [tag |-> "Value", value_query |-> q]

HasKey(key, nested) == [variant |-> "HasKey", key |-> key, nested |-> nested]
ArrayLen(q) == [variant |-> "ArrayLen", number |-> q]
ContainsElement(e) == [variant |-> "ContainsElement", elem |-> e]

\* HashMap::get
get(fields, key) == IF key \in DOMAIN fields THEN Some(fields[key]) ELSE None

\* Vec::contains
array_contains(array, e) == \E i \in 1..Len(array) : array[i] = e

\* array.len() as u64
len_as_u64(array) == CastTo(<<Len(array)>>, WidthBytes("U64"))

RECURSIVE verify_element(_, _)
RECURSIVE verify_value(_, _)
RECURSIVE QueryElement_verify(_, _)
RECURSIVE or_element(_, _, _)
RECURSIVE and_element(_, _, _)
RECURSIVE or_value(_, _, _)
RECURSIVE and_value(_, _, _)

\* has-key without nested predicate taken as a test of presence
QueryElement_verify_presence(q, data) ==
    CASE q.variant = "HasKey" ->
            IF data.shape = "Fields"
            THEN LET found == get(data.fields, q.key)
                 IN IF found = None THEN FALSE
                    ELSE IF q.nested # None
                         THEN verify_element(q.nested[1], found[1])
                         ELSE TRUE
            ELSE FALSE
      [] q.variant = "ArrayLen" ->
            IF data.shape = "Array"
            THEN QueryNumber_verify(q.number, U64(len_as_u64(data.items)))
            ELSE FALSE
      [] q.variant = "ContainsElement" ->
            IF data.shape = "Array"
            THEN array_contains(data.items, q.elem)
            ELSE FALSE

\* array-length taking a document that is no array as an array of length 0
QueryElement_verify_lenient(q, data) ==
    CASE q.variant = "HasKey" ->
            IF data.shape = "Fields"
            THEN LET found == get(data.fields, q.key)
                 IN IF found = None THEN FALSE
                    ELSE IF q.nested # None
                         THEN verify_element(q.nested[1], found[1])
                         ELSE FALSE
            ELSE FALSE
      [] q.variant = "ArrayLen" ->
            IF data.shape = "Array"
            THEN QueryNumber_verify(q.number, U64(len_as_u64(data.items)))
            ELSE QueryNumber_verify(q.number, U64(len_as_u64(<<>>)))
      [] q.variant = "ContainsElement" ->
            IF data.shape = "Array"
            THEN array_contains(data.items, q.elem)
            ELSE FALSE

QueryElement_verify(q, data) ==
    CASE q.variant = "HasKey" ->
            IF data.shape = "Fields"
            THEN LET found == get(data.fields, q.key)
                 IN IF found = None THEN FALSE
                    ELSE IF q.nested # None
                         THEN verify_element(q.nested[1], found[1])
                         ELSE FALSE
            ELSE FALSE
      [] q.variant = "ArrayLen" ->
            IF data.shape = "Array"
            THEN QueryNumber_verify(q.number, U64(len_as_u64(data.items)))
            ELSE FALSE
      [] q.variant = "ContainsElement" ->
            IF data.shape = "Array"
            THEN array_contains(data.items, q.elem)
            ELSE FALSE

\* the loop of the Or arm of verify_element, from operation i on
or_element(operations, e, i) ==
    IF i > Len(operations) THEN FALSE
    ELSE IF verify_element(operations[i], e) THEN TRUE
    ELSE or_element(operations, e, i + 1)

\* the And loop answering false when there was no operation at all
and_element_nonempty(operations, e, i) ==
    IF i > Len(operations) THEN Len(operations) > 0
    ELSE IF ~verify_element(operations[i], e) THEN FALSE
    ELSE and_element(operations, e, i + 1)

\* the loop of the And arm of verify_element, from operation i on
and_element(operations, e, i) ==
    IF i > Len(operations) THEN TRUE
    ELSE IF ~verify_element(operations[i], e) THEN FALSE
    ELSE and_element(operations, e, i + 1)

\* the Value arm never unwrapping the leaf document
verify_element_no_unwrap(q, e) ==
    CASE q.tag = "Element" -> QueryElement_verify(q.element_query, e)
      [] q.tag = "Value" -> FALSE
      [] q.tag = "Not" -> ~verify_element(q.op, e)
      [] q.tag = "Or" -> or_element(q.operations, e, 1)
      [] q.tag = "And" -> and_element(q.operations, e, 1)
      [] q.tag = "Type" -> element_kind(e) = q.expected

verify_element(q, e) ==
    CASE q.tag = "Element" -> QueryElement_verify(q.element_query, e)
      [] q.tag = "Value" ->
            IF e.shape = "Value" /\ e.opt # None
            THEN QueryValue_verify(q.value_query, e.opt[1])
            ELSE FALSE
      [] q.tag = "Not" -> ~verify_element(q.op, e)
      [] q.tag = "Or" -> or_element(q.operations, e, 1)
      [] q.tag = "And" -> and_element(q.operations, e, 1)
      [] q.tag = "Type" -> element_kind(e) = q.expected

\* the loop of the Or arm of verify_value, from operation i on
or_value(operations, v, i) ==
    IF i > Len(operations) THEN FALSE
    ELSE IF verify_value(operations[i], v) THEN TRUE
    ELSE or_value(operations, v, i + 1)

\* the loop of the And arm of verify_value, from operation i on
and_value(operations, v, i) ==
    IF i > Len(operations) THEN TRUE
    ELSE IF ~verify_value(operations[i], v) THEN FALSE
    ELSE and_value(operations, v, i + 1)

\* the Not arm without its negation
verify_value_no_negation(q, v) ==
    CASE q.tag = "Element" -> FALSE
      [] q.tag = "Value" -> QueryValue_verify(q.value_query, v)
      [] q.tag = "Not" -> verify_value(q.op, v)
      [] q.tag = "Or" -> or_value(q.operations, v, 1)
      [] q.tag = "And" -> and_value(q.operations, v, 1)
      [] q.tag = "Type" -> value_kind(v) = q.expected

verify_value(q, v) ==
    CASE q.tag = "Element" -> FALSE
      [] q.tag = "Value" -> QueryValue_verify(q.value_query, v)
      [] q.tag = "Not" -> ~verify_value(q.op, v)
      [] q.tag = "Or" -> or_value(q.operations, v, 1)
      [] q.tag = "And" -> and_value(q.operations, v, 1)
      [] q.tag = "Type" -> value_kind(v) = q.expected

\* every node but a scalar predicate taken to be for elements
is_for_element_not_value(q) ==
    CASE q.tag = "Value" -> FALSE
      [] OTHER -> TRUE

is_for_element(q) ==
    CASE q.tag = "Element" -> TRUE
      [] OTHER -> FALSE

(***************************************************************************)
(* Wire form of a request and its decoding (derived Deserialize)           *)
(*                                                                         *)
(* A wire value is an object with one key; the payload sits in a field     *)
(* named after its JSON type.  Scalars and documents of the document model *)
(* are carried already decoded.                                            *)
(***************************************************************************)
Ok(x) == <<x>>
Err == <<>>

json_not(w) == [key |-> "not", tree |-> w]
json_and(ws) == [key |-> "and", list |-> ws]
json_or(ws) == [key |-> "or", list |-> ws]
json_type(t) == [key |-> "type", name |-> t]
json_has_key(k, opt) == [key |-> "has_key", field |-> k, tree_opt |-> opt]
json_array_len(r) == [key |-> "array_len", range |-> r]
json_contains_element(d) == [key |-> "contains_element", document |-> d]
json_scalar(key, v) == [key |-> key, scalar |-> v]
json_pattern(src) == [key |-> "pattern", source |-> src]
json_range(key, t) == [key |-> key, uint |-> t]
json_unknown == [key |-> "unknown"]

\* Regex::new on a source of literals; an unbalanced group does not compile
regex_new(source) ==
    IF \E i \in 1..Len(source) : source[i] = "(" THEN Err ELSE Ok(source)

QueryNumber_deserialize(w) ==
    CASE w.key = "above" -> Ok(Above(w.uint))
      [] w.key = "above_or_equal" -> Ok(AboveOrEqual(w.uint))
      [] w.key = "below" -> Ok(Below(w.uint))
      [] w.key = "below_or_equal" -> Ok(BelowOrEqual(w.uint))
      [] OTHER -> Err

QueryValue_deserialize(w) ==
    CASE w.key = "equal" -> Ok(Equal(w.scalar))
      [] w.key = "starts_with" -> Ok(StartsWith(w.scalar))
      [] w.key = "ends_with" -> Ok(EndsWith(w.scalar))
      [] w.key = "contains_value" -> Ok(ContainsValue(w.scalar))
      [] w.key = "pattern" ->
            LET re == regex_new(w.source)
            IN IF re = Err THEN Err ELSE Ok(Pattern(re[1]))
      [] OTHER ->
            LET n == QueryNumber_deserialize(w)
            IN IF n = Err THEN Err ELSE Ok(NumberOp(n[1]))

RECURSIVE Query_deserialize(_)
RECURSIVE QueryElement_deserialize(_)

QueryElement_deserialize(w) ==
    CASE w.key = "has_key" ->
            IF w.tree_opt = None THEN Ok(HasKey(w.field, None))
            ELSE LET nested == Query_deserialize(w.tree_opt[1])
                 IN IF nested = Err THEN Err
                    ELSE Ok(HasKey(w.field, Some(nested[1])))
      [] w.key = "array_len" ->
            LET n == QueryNumber_deserialize(w.range)
            IN IF n = Err THEN Err ELSE Ok(ArrayLen(n[1]))
      [] w.key = "contains_element" -> Ok(ContainsElement(w.document))
      [] OTHER -> Err

\* Vec<Box<Query>>: every operand decodes, or the whole list fails
operations_deserialize(ws) ==
    IF \E i \in 1..Len(ws) : Query_deserialize(ws[i]) = Err THEN Err
    ELSE Ok([i \in 1..Len(ws) |-> Query_deserialize(ws[i])[1]])

Query_deserialize(w) ==
    CASE w.key = "not" ->
            LET op == Query_deserialize(w.tree)
            IN IF op = Err THEN Err ELSE Ok(Not(op[1]))
      [] w.key = "and" ->
            LET ops == operations_deserialize(w.list)
            IN IF ops = Err THEN Err ELSE Ok(And(ops[1]))
      [] w.key = "or" ->
            LET ops == operations_deserialize(w.list)
            IN IF ops = Err THEN Err ELSE Ok(Or(ops[1]))
      [] w.key = "type" -> Ok(Type(w.name))
      [] OTHER ->
            LET el == QueryElement_deserialize(w)
            IN IF el # Err THEN Ok(Element(el[1]))
               ELSE LET val == QueryValue_deserialize(w)
                    IN IF val # Err THEN Ok(Query_Value(val[1])) ELSE Err

Max(a, b) == IF a >= b THEN a ELSE b

RECURSIVE MaxOver(_, _, _)
RECURSIVE WireDepth(_)

\* the largest WireDepth among ws[i..]
MaxOver(ws, i, acc) ==
    IF i > Len(ws) THEN acc ELSE MaxOver(ws, i + 1, Max(acc, WireDepth(ws[i])))

\* nesting depth of a wire tree through not / and / or / has_key
WireDepth(w) ==
    CASE w.key = "not" -> 1 + WireDepth(w.tree)
      [] w.key \in {"and", "or"} -> 1 + MaxOver(w.list, 1, 0)
      [] w.key = "has_key" ->
            IF w.tree_opt = None THEN 0 ELSE 1 + WireDepth(w.tree_opt[1])
      [] OTHER -> 0

RECURSIVE MaxOverQ(_, _, _)
RECURSIVE QueryDepth(_)

MaxOverQ(qs, i, acc) ==
    IF i > Len(qs) THEN acc ELSE MaxOverQ(qs, i + 1, Max(acc, QueryDepth(qs[i])))

\* number of nested verify_element / verify_value calls below the root
QueryDepth(q) ==
    CASE q.tag = "Not" -> 1 + QueryDepth(q.op)
      [] q.tag \in {"And", "Or"} -> 1 + MaxOverQ(q.operations, 1, 0)
      [] q.tag = "Element" ->
            IF q.element_query.variant = "HasKey" /\ q.element_query.nested # None
            THEN 1 + QueryDepth(q.element_query.nested[1])
            ELSE 0
      [] OTHER -> 0

(***************************************************************************)
(* Requests, documents and scalars the engine is run on                    *)
(***************************************************************************)
sA == String(<<"a">>)
sB == String(<<"b">>)
sAB == String(<<"a", "b">>)
one8 == U8(Small(1, 1))
one64 == U64(Small(8, 1))

Scalars == {sA, sAB, one8, one64, Bool(TRUE)}

leaf(v) == DataElement_Value(Some(v))

Elements ==
    {DataElement_Value(None)}
    \cup {leaf(v) : v \in Scalars}
    \cup {Array(<<>>), Array(<<leaf(one8)>>), Array(<<leaf(one64), DataElement_Value(None)>>)}
    \cup {Fields(<<>>),
          Fields(sA :> leaf(one8)),
          Fields(sA :> Array(<<leaf(one8)>>)),
          Fields(sA :> Fields(sA :> leaf(sAB))),
          Fields(one8 :> DataElement_Value(None))}

LeafRequests ==
    {json_type("U8"), json_type("Array"),
     json_has_key(sA, None),
     json_array_len(json_range("below", Small(UsizeBytes, 1))),
     json_array_len(json_range("above_or_equal", Small(UsizeBytes, 1))),
     json_contains_element(leaf(one8)),
     json_scalar("equal", one8), json_scalar("equal", sA),
     json_scalar("starts_with", sA), json_scalar("ends_with", sB),
     json_scalar("contains_value", sB),
     json_pattern(<<"a">>), json_pattern(<<"(">>),
     json_range("above", Small(UsizeBytes, 0)),
     json_range("below_or_equal", Small(UsizeBytes, 1)),
     json_and(<<>>), json_or(<<>>),
     json_unknown}

\* what a client puts next to a subtree: true of "a" and of no other input
Siblings == {json_scalar("equal", sA)}

\* the operand lists a client puts next to a subtree
SiblingLists == UNION {[1..n -> Siblings] : n \in 0..(MaxChildren - 1)}

(***************************************************************************)
(* The request lifecycle: built by a client, decoded once, evaluated any   *)
(* number of times, one record after the other                             *)
(***************************************************************************)
Init ==
    /\ pc = "request"
    /\ wire \in LeafRequests
    /\ query = None
    /\ element = None
    /\ scalar = None
    /\ mode = "none"
    /\ result = FALSE
    /\ tx = None
    /\ writer = <<>>
    /\ reported = 0

Building == pc = "request" /\ WireDepth(wire) < MaxDepth

WrapNot ==
    /\ Building
    /\ wire' = json_not(wire)
    /\ UNCHANGED <<pc, query, element, scalar, mode, result, tx, writer, reported>>

WrapAnd ==
    /\ Building
    /\ \E sibs \in SiblingLists : wire' = json_and(<<wire>> \o sibs)
    /\ UNCHANGED <<pc, query, element, scalar, mode, result, tx, writer, reported>>

WrapOr ==
    /\ Building
    /\ \E sibs \in SiblingLists : wire' = json_or(<<wire>> \o sibs)
    /\ UNCHANGED <<pc, query, element, scalar, mode, result, tx, writer, reported>>

WrapHasKey ==
    /\ Building
    /\ wire' = json_has_key(sA, Some(wire))
    /\ UNCHANGED <<pc, query, element, scalar, mode, result, tx, writer, reported>>

DecodeOk ==
    /\ pc = "request"
    /\ Query_deserialize(wire) # Err
    /\ query' = Query_deserialize(wire)
    /\ pc' = "ready"
    /\ UNCHANGED <<wire, element, scalar, mode, result, tx, writer, reported>>

DecodeErr ==
    /\ pc = "request"
    /\ Query_deserialize(wire) = Err
    /\ pc' = "invalid"
    /\ UNCHANGED <<wire, query, element, scalar, mode, result, tx, writer, reported>>

VerifyElement ==
    /\ pc = "ready"
    /\ \E e \in Elements :
          /\ element' = Some(e)
          /\ result' = verify_element(query[1], e)
    /\ scalar' = None
    /\ mode' = "verify_element"
    /\ pc' = "answered"
    /\ UNCHANGED <<wire, query, tx, writer, reported>>

VerifyValue ==
    /\ pc = "ready"
    /\ \E v \in Scalars :
          /\ scalar' = Some(v)
          /\ result' = verify_value(query[1], v)
    /\ element' = None
    /\ mode' = "verify_value"
    /\ pc' = "answered"
    /\ UNCHANGED <<wire, query, tx, writer, reported>>

IsForElement ==
    /\ pc = "ready"
    /\ result' = is_for_element(query[1])
    /\ element' = None
    /\ scalar' = None
    /\ mode' = "is_for_element"
    /\ pc' = "answered"
    /\ UNCHANGED <<wire, query, tx, writer, reported>>

\* the caller takes the answer and moves on to its next record
NextRecord ==
    /\ pc = "answered"
    /\ pc' = "ready"
    /\ element' = None
    /\ scalar' = None
    /\ mode' = "none"
    /\ result' = FALSE
    /\ UNCHANGED <<wire, query, tx, writer, reported>>

Next ==
    \/ WrapNot
    \/ WrapAnd
    \/ WrapOr
    \/ WrapHasKey
    \/ DecodeOk
    \/ DecodeErr
    \/ VerifyElement
    \/ VerifyValue
    \/ IsForElement
    \/ NextRecord

Spec == Init /\ [][Next]_vars

(***************************************************************************)
(* Properties of the tree evaluation, stated of the behaviours of Spec      *)
(***************************************************************************)
Root == query[1]
Doc == element[1]
Arg == scalar[1]

CalledElement == pc = "answered" /\ mode = "verify_element"
CalledValue == pc = "answered" /\ mode = "verify_value"

IsLeafWithScalar(e) == e.shape = "Value" /\ e.opt # None

RootIsRange == Root.tag = "Value" /\ Root.value_query.variant = "NumberOp"
RootIs(variant) == Root.tag = "Element" /\ Root.element_query.variant = variant

\* C2: evaluation is fail-closed: a range predicate on a non-numeric scalar,
\* a Structural node in verify_value, a Scalar node in verify_element on a
\* field map, an array or a leaf without scalar, has-key on a document that
\* is not a field map, array-length and contains-element on a document that
\* is not an array all return false.
C2_FailClosed ==
    /\ (CalledValue /\ RootIsRange /\ Arg.kind \notin NumericKinds) => result = FALSE
    /\ (CalledElement /\ RootIsRange /\ IsLeafWithScalar(Doc)
            /\ Doc.opt[1].kind \notin NumericKinds) => result = FALSE
    /\ (CalledValue /\ Root.tag = "Element") => result = FALSE
    /\ (CalledElement /\ Root.tag = "Value" /\ ~IsLeafWithScalar(Doc)) => result = FALSE
    /\ (CalledElement /\ RootIs("HasKey") /\ Doc.shape # "Fields") => result = FALSE
    /\ (CalledElement /\ RootIs("ArrayLen") /\ Doc.shape # "Array") => result = FALSE
    /\ (CalledElement /\ RootIs("ContainsElement") /\ Doc.shape # "Array") => result = FALSE

\* an array-length predicate that would hold of an empty array is evaluated
\* on a field map, and returns false
C2_Witness ==
    /\ CalledElement /\ RootIs("ArrayLen") /\ Doc.shape = "Fields"
    /\ QueryNumber_verify(Root.element_query.number, U64(len_as_u64(<<>>)))
    /\ result = FALSE

\* C4: in both modes And is true exactly when every operand is true in the
\* same mode, Or exactly when some operand is; And of no operand is true and
\* Or of no operand is false.
C4_AndOr ==
    /\ (CalledElement /\ Root.tag = "And") =>
          result = (\A i \in 1..Len(Root.operations) :
                        verify_element(Root.operations[i], Doc))
    /\ (CalledElement /\ Root.tag = "Or") =>
          result = (\E i \in 1..Len(Root.operations) :
                        verify_element(Root.operations[i], Doc))
    /\ (CalledValue /\ Root.tag = "And") =>
          result = (\A i \in 1..Len(Root.operations) :
                        verify_value(Root.operations[i], Arg))
    /\ (CalledValue /\ Root.tag = "Or") =>
          result = (\E i \in 1..Len(Root.operations) :
                        verify_value(Root.operations[i], Arg))
    /\ ((CalledElement \/ CalledValue)
            /\ Root.tag = "And" /\ Root.operations = <<>>) => result = TRUE
    /\ ((CalledElement \/ CalledValue)
            /\ Root.tag = "Or" /\ Root.operations = <<>>) => result = FALSE

\* an And whose first operand holds and whose last operand fails
C4_Witness ==
    /\ CalledElement /\ Root.tag = "And" /\ Len(Root.operations) >= 2
    /\ verify_element(Root.operations[1], Doc)
    /\ ~verify_element(Root.operations[Len(Root.operations)], Doc)
    /\ result = FALSE

\* C5: Not(p) returns the negation of p evaluated in the same mode.
C5_Not ==
    /\ (CalledElement /\ Root.tag = "Not") => result = ~verify_element(Root.op, Doc)
    /\ (CalledValue /\ Root.tag = "Not") => result = ~verify_value(Root.op, Arg)

\* a negated structural predicate on a scalar: the operand is false in scalar
\* mode, so the negation is true
C5_Witness ==
    /\ CalledValue /\ Root.tag = "Not" /\ Root.op.tag = "Element"
    /\ result = TRUE

C7_IsForElement ==
    /\ (pc = "answered" /\ mode = "is_for_element") => result = (Root.tag = "Element")
    /\ (CalledValue /\ is_for_element(Root)) => result = FALSE

\* is_for_element answered true for a has-key root
C7_Witness ==
    /\ pc = "answered" /\ mode = "is_for_element"
    /\ RootIs("HasKey") /\ result = TRUE

RECURSIVE ScalarOnly(_)
\* trees built only from Not, And, Or and Value nodes
ScalarOnly(q) ==
    CASE q.tag = "Value" -> TRUE
      [] q.tag = "Not" -> ScalarOnly(q.op)
      [] q.tag \in {"And", "Or"} ->
            \A i \in 1..Len(q.operations) : ScalarOnly(q.operations[i])
      [] OTHER -> FALSE

\* C9: on trees built only from Not, And, Or and Value nodes, verify_element
\* of the leaf document wrapping Some(v) equals verify_value(v).
C9_EntryPointsAgree ==
    /\ (CalledElement /\ ScalarOnly(Root) /\ IsLeafWithScalar(Doc)) =>
          result = verify_value(Root, Doc.opt[1])
    /\ (CalledValue /\ ScalarOnly(Root)) =>
          result = verify_element(Root, leaf(Arg))

\* a combinator over scalar predicates that matches a leaf document
C9_Witness ==
    /\ CalledElement /\ ScalarOnly(Root) /\ IsLeafWithScalar(Doc)
    /\ Root.tag \in {"And", "Or"} /\ Len(Root.operations) >= 2
    /\ result = TRUE

\* C3: the decoder enforces a maximum nesting depth: for some limit below
\* the deepest tree a client sends, no deeper tree is decoded and evaluated.
C3_DepthEnforced ==
    \E limit \in 0..(MaxDepth - 1) :
        pc \in {"ready", "answered"} => QueryDepth(Root) <= limit

(***************************************************************************)
(* QueryNumber::verify on its own: every operator, thresholds over the     *)
(* whole usize range, scalars of every width                               *)
(***************************************************************************)
Digit == 0..MaxDigit

Thresholds ==
    {Num(UsizeBytes, lo, pos, hi) : lo \in Digit, hi \in Digit, pos \in {1, 2, 3, 5, 8}}

NumberQueries ==
    {[op |-> o, threshold |-> t] :
        o \in {"Above", "AboveOrEqual", "Below", "BelowOrEqual"}, t \in Thresholds}

NumberInputs ==
    {Unsigned(k, Num(WidthBytes(k), lo, WidthBytes(k), hi)) :
        k \in NumericKinds, lo \in Digit, hi \in Digit}
    \cup {sA, Bool(TRUE)}

InitNumber ==
    /\ pc = "call"
    /\ query \in {Some(q) : q \in NumberQueries}
    /\ scalar \in {Some(v) : v \in NumberInputs}
    /\ wire = json_unknown
    /\ element = None
    /\ mode = "none"
    /\ result = FALSE
    /\ tx = None
    /\ writer = <<>>
    /\ reported = 0

NumberVerify ==
    /\ pc = "call"
    /\ result' = QueryNumber_verify(query[1], scalar[1])
    /\ mode' = "QueryNumber::verify"
    /\ pc' = "returned"
    /\ UNCHANGED <<wire, query, element, scalar, tx, writer, reported>>

NextNumber == NumberVerify

SpecNumber == InitNumber /\ [][NextNumber]_vars

U128Bytes == WidthBytes("U128")

\* the comparison of the operator on two integers of the same width
Compare(op, a, b) ==
    CASE op = "Above" -> Gt(a, b)
      [] op = "AboveOrEqual" -> Ge(a, b)
      [] op = "Below" -> Lt(a, b)
      [] op = "BelowOrEqual" -> Le(a, b)

\* C1: for every operator, threshold and numeric scalar, verify returns the
\* comparison of the scalar and the threshold both widened to 128 bits.
C1_WidenedComparison ==
    (pc = "returned" /\ mode = "QueryNumber::verify" /\ Arg.kind \in NumericKinds) =>
        result = Compare(Root.op, CastTo(Arg.num, U128Bytes),
                         CastTo(Root.threshold, U128Bytes))

(***************************************************************************)
(* QueryValue::verify on its own: string-derived predicates on operands    *)
(* and inputs of every rendering                                           *)
(***************************************************************************)
Alphabet == {"a", "b", "1"}

Strings == UNION {[1..n -> Alphabet] : n \in 0..MaxStrLen}

ValueInputs ==
    {String(str) : str \in Strings}
    \cup {U8(Small(1, 1)), U8(Small(1, 12)), U8(Small(1, 21)),
          U16(Num(2, 1, 2, 1)), Bool(TRUE)}

ValueQueries ==
    {[variant |-> var, operand |-> x] :
        var \in {"Equal", "StartsWith", "EndsWith", "ContainsValue"},
        x \in ValueInputs}
    \cup {Pattern(str) : str \in Strings}
    \cup {NumberOp(Above(Small(UsizeBytes, 1))), NumberOp(Below(Small(UsizeBytes, 12)))}

InitValue ==
    /\ pc = "call"
    /\ query \in {Some(q) : q \in ValueQueries}
    /\ scalar \in {Some(v) : v \in ValueInputs}
    /\ wire = json_unknown
    /\ element = None
    /\ mode = "none"
    /\ result = FALSE
    /\ tx = None
    /\ writer = <<>>
    /\ reported = 0

ValueVerify ==
    /\ pc = "call"
    /\ result' = QueryValue_verify(query[1], scalar[1])
    /\ mode' = "QueryValue::verify"
    /\ pc' = "returned"
    /\ UNCHANGED <<wire, query, element, scalar, tx, writer, reported>>

NextValue == ValueVerify

SpecValue == InitValue /\ [][NextValue]_vars

ReturnedEndsWith ==
    pc = "returned" /\ mode = "QueryValue::verify" /\ Root.variant = "EndsWith"

\* C8: EndsWith(x).verify(v) is whether the canonical string of v starts with
\* the canonical string of x, the same as StartsWith(x).verify(v).
C8_EndsWithIsStartsWith ==
    ReturnedEndsWith =>
        /\ result = starts_with(to_string(Arg), to_string(Root.operand))
        /\ result = QueryValue_verify(StartsWith(Root.operand), Arg)

\* the input ends with the operand but does not start with it
C8_Witness ==
    /\ ReturnedEndsWith
    /\ ends_with(to_string(Arg), to_string(Root.operand))
    /\ ~starts_with(to_string(Arg), to_string(Root.operand))
    /\ result = FALSE

(***************************************************************************)
(* TransactionType: write and size                                         *)
(***************************************************************************)
\* bytes of the opaque components (Serializer of the crypto types and u64)
Hash_size == 32
CompressedPublicKey_size == 32
CompressedCommitment_size == 32
CompressedHandle_size == 32
u64_size == 8

\* the bytes an opaque component of n bytes writes
Opaque(n) == [i \in 1..n |-> 0]

write_u8(w, b) == Append(w, b % 256)
write_bool(w, b) == Append(w, IF b THEN 1 ELSE 0)
write_u16(w, n) == w \o <<(n \div 256) % 256, n % 256>>
write_bytes(w, bytes) == w \o bytes

TransferPayload(extra_data) == [extra_data |-> extra_data]
BurnPayload(amount) == [amount |-> amount]
Transfers(txs) == [variant |-> "Transfers", txs |-> txs]
Burn(payload) == [variant |-> "Burn", payload |-> payload]

TransferPayload_write(p, w) ==
    LET w1 == write_bytes(w, Opaque(Hash_size))
        w2 == write_bytes(w1, Opaque(CompressedPublicKey_size))
        w3 == write_bool(w2, p.extra_data # None)
        w4 == IF p.extra_data # None
              THEN write_bytes(write_u16(w3, Len(p.extra_data[1])), p.extra_data[1])
              ELSE w3
        w5 == write_bytes(w4, Opaque(CompressedCommitment_size))
        w6 == write_bytes(w5, Opaque(CompressedHandle_size))
    IN write_bytes(w6, Opaque(CompressedHandle_size))

TransferPayload_size(p) ==
    LET size == Hash_size + CompressedPublicKey_size + 1 + CompressedCommitment_size
                    + CompressedHandle_size + CompressedHandle_size
    IN IF p.extra_data # None THEN size + 2 + Len(p.extra_data[1]) ELSE size

BurnPayload_write(p, w) ==
    write_bytes(write_bytes(w, Opaque(Hash_size)), CastTo(p.amount, u64_size))

BurnPayload_size(p) == Hash_size + u64_size

RECURSIVE write_each(_, _, _)
\* the loop of TransactionType::write over txs[i..]
write_each(txs, i, w) ==
    IF i > Len(txs) THEN w
    ELSE write_each(txs, i + 1, TransferPayload_write(txs[i], w))

TransactionType_write(t, w) ==
    CASE t.variant = "Burn" -> BurnPayload_write(t.payload, write_u8(w, 0))
      [] t.variant = "Transfers" ->
            write_each(t.txs, 1, write_u8(write_u8(w, 1), Len(t.txs)))

RECURSIVE size_each(_, _, _)
\* the loop of TransactionType::size over txs[i..]
size_each(txs, i, size) ==
    IF i > Len(txs) THEN size
    ELSE size_each(txs, i + 1, size + TransferPayload_size(txs[i]))

TransactionType_size(t) ==
    CASE t.variant = "Burn" -> 1 + BurnPayload_size(t.payload)
      [] t.variant = "Transfers" -> size_each(t.txs, 1, 1)

ExtraData == {None} \cup {Some([i \in 1..n |-> 7]) : n \in 0..MaxExtraLen}

TransferPayloads == {TransferPayload(x) : x \in ExtraData}

TransactionTypes ==
    {Burn(BurnPayload(Small(u64_size, k))) : k \in Digit}
    \cup {Transfers(txs) : txs \in UNION {[1..n -> TransferPayloads] : n \in 0..MaxTransfers}}

InitTx ==
    /\ pc = "built"
    /\ tx \in {Some(t) : t \in TransactionTypes}
    /\ writer = <<>>
    /\ reported = 0
    /\ wire = json_unknown
    /\ query = None
    /\ element = None
    /\ scalar = None
    /\ mode = "none"
    /\ result = FALSE

Write ==
    /\ pc = "built"
    /\ writer' = TransactionType_write(tx[1], writer)
    /\ pc' = "written"
    /\ UNCHANGED <<wire, query, element, scalar, mode, result, tx, reported>>

Size ==
    /\ pc = "written"
    /\ reported' = TransactionType_size(tx[1])
    /\ pc' = "sized"
    /\ UNCHANGED <<wire, query, element, scalar, mode, result, tx, writer>>

NextTx == Write \/ Size

SpecTx == InitTx /\ [][NextTx]_vars

\* C10: for every TransactionType, size() equals the number of bytes that
\* write() appends to the writer.
C10_SizeIsWrittenLength ==
    pc = "sized" => reported = Len(writer)

====
